---- MODULE Spec2Model ----
(***************************************************************************)
(* A model of messages/email_.py: the Email client's constructor           *)
(* (configuration resolution against the jsonconfig profile store), the    *)
(* composition of the MIMEMultipart message, the SMTP session selection    *)
(* and the synchronous send().                                             *)
(*                                                                         *)
(* Python values are tagged records, so that None, a str and a list stay   *)
(* distinguishable the way isinstance() and truthiness distinguish them.   *)
(* A str is a sequence of tokens (<<"me", "@", "here.com">>), so that      *)
(* split('@'), ', '.join() and '+' are computed, not assumed.              *)
(***************************************************************************)
EXTENDS Integers, Sequences, FiniteSets, TLC

None == [t |-> "None"]
Str(s) == [t |-> "str", v |-> s]
List(l) == [t |-> "list", v |-> l]
PyInt(n) == [t |-> "int", v |-> n]

\* Python truthiness: None, 0, '' and [] are falsy.
Truthy(x) ==
    IF x.t = "None" THEN FALSE
    ELSE IF x.t = "int" THEN x.v # 0 ELSE x.v # <<>>

\* Python's `x or y`.
Or(x, y) == IF Truthy(x) THEN x ELSE y

(***************************************************************************)
(* Bounds of the model.                                                    *)
(***************************************************************************)
MaxSent == 2
MaxOpen == 1
MaxConstructions == 2

(***************************************************************************)
(* The values the model draws its inputs from.                            *)
(***************************************************************************)
Me == Str(<<"me", "@", "here.com">>)
You == Str(<<"you", "@", "there.com">>)
Her == Str(<<"her", "@", "there.com">>)
Him == Str(<<"him", "@", "there.com">>)
Root == Str(<<"root">>)
Saved == Str(<<"saved", "@", "z.net">>)

File1 == Str(<<"./file1">>)
File2 == Str(<<"/home/you/file2.pdf">>)

RecipientValues == {None, You, List(<<Her, Him>>)}
CcValues == {None, You}
BccValues == {None, Him}
SubjectValues == {Str(<<>>), Str(<<"Hi">>)}
BodyValues == {Str(<<>>), Str(<<"Hello">>)}
AttachmentValues == {None, File1, List(<<File1, File2>>)}
ReadableValues == {{File1, File2}, {File1}}
PortValues == {PyInt(465), PyInt(587), PyInt(25)}

VARIABLES
    self,           \* the Email object's attributes
    pc,             \* the position of the current send() call
    raised,         \* the exception the last call ended with, or "none"
    session,        \* the local `session` of send(): "unbound", "open", "closed"
    wire,           \* the SMTP events of the current (or last) send() call
    sendmail_args,  \* the arguments send() handed to session.sendmail
    open_sessions,  \* SMTP connections opened and not closed
    readable,       \* the files open(item, 'rb') can read
    store,          \* the jsonconfig profiles: data sections and keyring
    args,           \* the arguments of the last constructor call
    prompted,       \* whether the last constructor call invoked getpass
    constructions   \* constructor calls made

vars == <<self, pc, raised, session, wire, sendmail_args, open_sessions,
          readable, store, args, prompted, constructions>>

sendVars == <<pc, session, wire, sendmail_args, open_sessions, readable>>
ctorVars == <<store, args, prompted, constructions>>

(***************************************************************************)
(* Pure helpers of the class.                                              *)
(***************************************************************************)

\* str.split(sep)[1]: the tokens after the first sep and before the next.
RECURSIVE UpTo(_, _)
UpTo(s, sep) ==
    IF s = <<>> \/ Head(s) = sep THEN <<>> ELSE <<Head(s)>> \o UpTo(Tail(s), sep)

RECURSIVE After(_, _)
After(s, sep) ==
    IF s = <<>> THEN <<>>
    ELSE IF Head(s) = sep THEN Tail(s) ELSE After(Tail(s), sep)

HasSep(s, sep) == \E i \in 1..Len(s) : s[i] = sep

\* Email.get_server: 'smtp.' + address.split('@')[1]; IndexError without '@'.
get_server_raises(address) == ~HasSep(address.v, "@")
get_server(address) == Str(<<"smtp.">> \o UpTo(After(address.v, "@"), "@"))

\* ', '.join(list of str)
RECURSIVE Join(_)
Join(l) ==
    IF l = <<>> THEN <<>>
    ELSE IF Len(l) = 1 THEN l[1].v
    ELSE l[1].v \o <<", ">> \o Join(Tail(l))

\* Email.list_to_string
list_to_string(recipient) ==
    IF Truthy(recipient)
    THEN IF recipient.t = "list" THEN Str(Join(recipient.v)) ELSE recipient
    ELSE None

(***************************************************************************)
(* The composed message: MIMEMultipart() with its headers and its parts.   *)
(***************************************************************************)
MIMEMultipart == [t |-> "MIMEMultipart", headers |-> <<>>, parts |-> <<>>]

SetHeader(m, name, value) == [m EXCEPT !.headers = Append(@, <<name, value>>)]

Attach(m, part) == [m EXCEPT !.parts = Append(@, part)]

\* The bytes open(item, 'rb').read() returns.
FileContent(item) == <<"bytes of">> \o item.v

\* Email.add_header
add_header(m, slf) ==
    SetHeader(SetHeader(m, "From", slf.from_), "Subject", slf.subject)

\* Email.add_body
add_body(m, slf) ==
    IF Truthy(slf.body)
    THEN Attach(m, [ctype |-> "text/plain", payload |-> slf.body.v])
    ELSE m

\* The attachments attribute after add_attachments' normalisation.
NormalisedAttachments(attachments) ==
    IF Truthy(attachments) /\ attachments.t = "str"
    THEN List(<<attachments>>)
    ELSE attachments

\* One MIMEApplication part with its Content-Disposition header.
MIMEApplication(item) ==
    [ctype |-> "application/octet-stream", payload |-> FileContent(item),
     filename |-> item.v]

\* A slip: a file that cannot be read is skipped and the loop goes on.
RECURSIVE AttachLoop_SkipsUnreadable(_, _, _)
AttachLoop_SkipsUnreadable(m, items, rd) ==
    IF items = <<>> THEN [message |-> m, exc |-> "none"]
    ELSE IF Head(items) \notin rd
         THEN AttachLoop_SkipsUnreadable(m, Tail(items), rd)
         ELSE AttachLoop_SkipsUnreadable(Attach(m, MIMEApplication(Head(items))),
                                         Tail(items), rd)

\* The loop of add_attachments: stops at the first file that cannot be read.
RECURSIVE AttachLoop(_, _, _)
AttachLoop(m, items, rd) ==
    IF items = <<>> THEN [message |-> m, exc |-> "none"]
    ELSE IF Head(items) \notin rd
         THEN [message |-> m, exc |-> "FileNotFoundError"]
         ELSE AttachLoop(Attach(m, MIMEApplication(Head(items))), Tail(items), rd)

\* Email.add_attachments
add_attachments(m, attachments, rd) ==
    IF Truthy(attachments)
    THEN AttachLoop(m, NormalisedAttachments(attachments).v, rd)
    ELSE [message |-> m, exc |-> "none"]

\* A slip: the message is created once and every call adds to it.
generate_email_Accumulating(slf, rd) ==
    add_attachments(
        add_body(add_header(IF slf.message = None THEN MIMEMultipart
                            ELSE slf.message, slf), slf),
        slf.attachments, rd)

\* Email.generate_email: the message is rebuilt from a new MIMEMultipart().
generate_email(slf, rd) ==
    add_attachments(add_body(add_header(MIMEMultipart, slf), slf),
                    slf.attachments, rd)

\* The object after generate_email(), as it returned or raised.
AfterGenerate(slf, rd) ==
    [slf EXCEPT !.message = generate_email(slf, rd).message,
                !.attachments = NormalisedAttachments(@)]

(***************************************************************************)
(* send(): the recipient headers and the envelope recipients.              *)
(***************************************************************************)
AddRecipientHeader(m, name, value) ==
    IF Truthy(value) THEN SetHeader(m, name, list_to_string(value)) ELSE m

\* self.message after the three `if self.to / cc / bcc` blocks.
WithRecipientHeaders(m, slf) ==
    AddRecipientHeader(
        AddRecipientHeader(AddRecipientHeader(m, "To", slf.to), "Cc", slf.cc),
        "Bcc", slf.bcc)

AppendIf(l, value) == IF Truthy(value) THEN Append(l, value) ELSE l

\* The local `recipients` list: recipients.append(self.to) and so on.
Recipients(slf) == AppendIf(AppendIf(AppendIf(<<>>, slf.to), slf.cc), slf.bcc)

\* repr(self): the same string for one object.
Repr == Str(<<"<messages.Email class> at: ", "id(self)">>)

(***************************************************************************)
(* The constructor: configuration resolution inside `with Config(profile)`.*)
(***************************************************************************)
msg == "email"

EmptyDict == [k \in {} |-> None]

\* dict.get(key, default)
Get(d, key, default) == IF key \in DOMAIN d THEN d[key] ELSE default

\* d[key] = value
Put(d, key, value) == [k \in DOMAIN d \cup {key} |-> IF k = key THEN value ELSE d[k]]

\* Line 71: port=465
DefaultPort == 465

\* The profile Config() opens: 'messages' or 'messages_' + name.
Profile(name) ==
    IF name.t = "None" THEN <<"messages">> ELSE <<"messages_">> \o name.v

\* name + '_' + msg: a TypeError when name is None.
KeyRaises(name) == name.t # "str"
Key(name) == name.v \o <<"_">> \o <<msg>>

\* The object that does not exist: the constructor has not returned.
NoObject == [t |-> "NoObject"]

\* Lines 84-85: the session's data with the 'email' section present.
WithSection(data) == IF msg \in DOMAIN data THEN data ELSE Put(data, msg, EmptyDict)

\* Line 86: the stored from_ wins over the argument.
ResolveFrom(sec, a) == Get(sec, "from_", a.from_)

\* Lines 88-89: get_server(self.from_) is evaluated whenever server is falsy.
ResolveServerRaises(sec, a) ==
    /\ ~Truthy(a.server)
    /\ \/ ResolveFrom(sec, a).t # "str"
       \/ get_server_raises(ResolveFrom(sec, a))

\* A slip: the stored server is looked up before the argument.
ResolveServer_StoredFirst(sec, a) ==
    Get(sec, "server", Or(a.server, get_server(ResolveFrom(sec, a))))

ResolveServer(sec, a) ==
    IF Truthy(a.server) THEN a.server
    ELSE Get(sec, "server", get_server(ResolveFrom(sec, a)))

\* Line 90: the stored port wins over the argument.
ResolvePort(sec, a) == Get(sec, "port", a.port)

\* Line 92: password or cfg.pwd.get(name + '_' + msg, None)
ResolvePasswordRaises(pwd, a) == ~Truthy(a.password) /\ KeyRaises(a.name)

ResolvePassword(pwd, a) ==
    IF Truthy(a.password) THEN a.password ELSE Get(pwd, Key(a.name), None)

\* Lines 93-94: getpass() only when the password is None.
Prompts(pwd, a) == ResolvePassword(pwd, a) = None

FinalPassword(pwd, a, typed) ==
    IF Prompts(pwd, a) THEN typed ELSE ResolvePassword(pwd, a)

\* Lines 97-98: the three resolved attributes written into the section.
SavedSection(sec, a) ==
    Put(Put(Put(sec, "from_", ResolveFrom(sec, a)),
            "server", ResolveServer(sec, a)),
        "port", ResolvePort(sec, a))

\* Lines 86-107: the attributes of the constructed object.
Attributes(sec, pwd, a, typed) ==
    [t |-> "Email",
     from_ |-> ResolveFrom(sec, a),
     to |-> a.to, cc |-> a.cc, bcc |-> a.bcc,
     server |-> ResolveServer(sec, a),
     port |-> ResolvePort(sec, a),
     password |-> FinalPassword(pwd, a, typed),
     subject |-> a.subject,
     body |-> a.body,
     attachments |-> Or(a.attachments, List(<<>>)),
     message |-> None,
     sent_messages |-> <<>>]

\* Email.__init__ on the session cfg = [data, pwd] of the profile: the
\* exception it ends with, the object, the session as it stands when the
\* with block is left, and whether getpass was invoked.
Ctor(cfg, a, typed) ==
    LET data == WithSection(cfg.data)
        sec == data[msg]
        opened == [data |-> data, pwd |-> cfg.pwd]
    IN  IF ResolveServerRaises(sec, a)
        THEN [exc |-> IF ResolveFrom(sec, a).t # "str"
                      THEN "AttributeError" ELSE "IndexError",
              obj |-> NoObject, cfg |-> opened, prompted |-> FALSE]
        ELSE IF ResolvePasswordRaises(cfg.pwd, a)
        THEN [exc |-> "TypeError", obj |-> NoObject, cfg |-> opened,
              prompted |-> FALSE]
        ELSE IF ~a.save
        THEN [exc |-> "none", obj |-> Attributes(sec, cfg.pwd, a, typed),
              cfg |-> opened, prompted |-> Prompts(cfg.pwd, a)]
        ELSE IF KeyRaises(a.name)
        THEN [exc |-> "TypeError", obj |-> NoObject,
              cfg |-> [data |-> Put(data, msg, SavedSection(sec, a)),
                       pwd |-> cfg.pwd],
              prompted |-> Prompts(cfg.pwd, a)]
        ELSE [exc |-> "none", obj |-> Attributes(sec, cfg.pwd, a, typed),
              cfg |-> [data |-> Put(data, msg, SavedSection(sec, a)),
                       pwd |-> Put(cfg.pwd, Key(a.name),
                                   FinalPassword(cfg.pwd, a, typed))],
              prompted |-> Prompts(cfg.pwd, a)]

(***************************************************************************)
(* The profile store before the first construction.                        *)
(***************************************************************************)
Work == Str(<<"work">>)
NameValues == {None, Work}

StoredServer == Str(<<"smtp.", "stored.org">>)
ArgServer == Str(<<"smtp.", "arg.org">>)
Kept == Str(<<"kept">>)
Pw == Str(<<"pw">>)
Typed == Str(<<"typed">>)

FullSection ==
    Put(Put(Put(EmptyDict, "from_", Saved), "server", StoredServer),
        "port", PyInt(587))

SectionValues ==
    {EmptyDict, Put(EmptyDict, "port", PyInt(587)),
     Put(EmptyDict, "server", StoredServer), Put(EmptyDict, "from_", Saved),
     FullSection}

DataValues == {EmptyDict} \cup {Put(EmptyDict, msg, sec) : sec \in SectionValues}

EmptyStore ==
    [p \in {Profile(n) : n \in NameValues} |-> [data |-> EmptyDict, pwd |-> EmptyDict]]

InitialStores ==
    {[p \in {Profile(n) : n \in NameValues} |->
        IF p = Profile(None)
        THEN [data |-> d0, pwd |-> EmptyDict]
        ELSE [data |-> d1, pwd |-> p1]] :
     d0 \in {EmptyDict, Put(EmptyDict, msg, FullSection)},
     d1 \in DataValues,
     p1 \in {EmptyDict, Put(EmptyDict, Key(Work), Kept)}}

\* The constructor calls the model makes.
CtorArgs ==
    [from_ : {Me, Root}, to : {You}, cc : {None}, bcc : {None},
     server : {None, ArgServer}, port : {PyInt(DefaultPort), PyInt(587)},
     password : {None, Pw}, subject : {Str(<<>>)}, body : {Str(<<>>)},
     attachments : {None}, name : NameValues, save : BOOLEAN]

\* The constructor calls that make the clients send() is explored on.
SendArgs ==
    [from_ : {Me}, to : RecipientValues, cc : CcValues, bcc : BccValues,
     server : {None}, port : PortValues,
     password : {Pw}, subject : {Str(<<>>)}, body : {Str(<<>>)},
     attachments : {None}, name : {Work}, save : {FALSE}]

NoArgs == [t |-> "NoArgs"]

(***************************************************************************)
(* The constructor as a step.                                              *)
(***************************************************************************)
\* Email(**a): the with block persists the session when it is left normally;
\* what it persists when left by an exception is jsonconfig's business.
Construct(a, typed, persist) ==
    LET p == Profile(a.name)
        r == Ctor(store[p], a, typed)
    IN  /\ pc = "idle"
        /\ constructions < MaxConstructions
        /\ constructions' = constructions + 1
        /\ args' = a
        /\ raised' = r.exc
        /\ self' = r.obj
        /\ prompted' = r.prompted
        /\ store' = IF r.exc = "none" \/ persist
                    THEN [store EXCEPT ![p] = r.cfg]
                    ELSE store
        /\ UNCHANGED sendVars

(***************************************************************************)
(* Assignments to the attributes between calls.                            *)
(***************************************************************************)
Idle == pc = "idle" /\ self.t = "Email"

AssignSubject(v) ==
    /\ Idle
    /\ self' = [self EXCEPT !.subject = v]
    /\ self' # self
    /\ UNCHANGED <<raised, sendVars, ctorVars>>

AssignBody(v) ==
    /\ Idle
    /\ self' = [self EXCEPT !.body = v]
    /\ self' # self
    /\ UNCHANGED <<raised, sendVars, ctorVars>>

AssignAttachments(v) ==
    /\ Idle
    /\ self' = [self EXCEPT !.attachments = v]
    /\ self' # self
    /\ UNCHANGED <<raised, sendVars, ctorVars>>

(***************************************************************************)
(* generate_email() called on its own.                                     *)
(***************************************************************************)
GenerateEmail ==
    /\ Idle
    /\ self' = AfterGenerate(self, readable)
    /\ raised' = generate_email(self, readable).exc
    /\ UNCHANGED <<sendVars, ctorVars>>

(***************************************************************************)
(* send(), one step per call it makes.                                     *)
(***************************************************************************)
SSL_PORT == 465
TLS_PORT == 587

\* The exception leaves send(): the local session is dropped as it is.
Raise(exc) ==
    /\ pc' = "idle"
    /\ raised' = exc

\* A step on the wire that opens a connection.
Connect(event) ==
    /\ wire' = Append(wire, event)
    /\ session' = "open"
    /\ open_sessions' = open_sessions + 1

\* A step on the wire over the open connection.
Talk(event) ==
    /\ wire' = Append(wire, event)
    /\ UNCHANGED <<session, open_sessions>>

\* Line 219: self.generate_email()
SendGenerate ==
    /\ Idle
    /\ Len(self.sent_messages) < MaxSent
    /\ open_sessions < MaxOpen
    /\ self' = AfterGenerate(self, readable)
    /\ wire' = <<>>
    /\ session' = "unbound"
    /\ sendmail_args' = None
    /\ IF generate_email(self, readable).exc = "none"
       THEN pc' = "get_session" /\ raised' = "none"
       ELSE Raise(generate_email(self, readable).exc)
    /\ UNCHANGED <<open_sessions, readable, ctorVars>>

\* Lines 192-193, 200-202: smtplib.SMTP_SSL(server, port)
GetSsl ==
    /\ pc = "get_session"
    /\ self.port.v = SSL_PORT
    /\ \/ Connect("SMTP_SSL") /\ pc' = "login" /\ UNCHANGED raised
       \/ Raise("SMTPConnectError") /\ UNCHANGED <<wire, session, open_sessions>>
    /\ UNCHANGED <<self, sendmail_args, readable, ctorVars>>

\* Lines 194-195, 207: smtplib.SMTP(server, port)
GetTls ==
    /\ pc = "get_session"
    /\ self.port.v = TLS_PORT
    /\ \/ Connect("SMTP") /\ pc' = "ehlo1" /\ UNCHANGED raised
       \/ Raise("SMTPConnectError") /\ UNCHANGED <<wire, session, open_sessions>>
    /\ UNCHANGED <<self, sendmail_args, readable, ctorVars>>

\* Lines 192-196 with any other port: `session` is never bound.
GetNoSession ==
    /\ pc = "get_session"
    /\ self.port.v \notin {SSL_PORT, TLS_PORT}
    /\ Raise("UnboundLocalError")
    /\ UNCHANGED <<self, wire, session, open_sessions, sendmail_args, readable,
                   ctorVars>>

\* A slip: get_tls() returns after the first ehlo(), without starttls().
Ehlo1_SkipsStartTls ==
    /\ pc = "ehlo1"
    /\ Talk("ehlo")
    /\ pc' = "login"
    /\ UNCHANGED <<raised, self, sendmail_args, readable, ctorVars>>

\* Line 208: session.ehlo()
Ehlo1 ==
    /\ pc = "ehlo1"
    /\ Talk("ehlo")
    /\ \/ pc' = "starttls" /\ UNCHANGED raised
       \/ Raise("SMTPServerDisconnected")
    /\ UNCHANGED <<self, sendmail_args, readable, ctorVars>>

\* Line 209: session.starttls()
StartTls ==
    /\ pc = "starttls"
    /\ Talk("starttls")
    /\ \/ pc' = "ehlo2" /\ UNCHANGED raised
       \/ Raise("SMTPNotSupportedError")
    /\ UNCHANGED <<self, sendmail_args, readable, ctorVars>>

\* Line 210: session.ehlo()
Ehlo2 ==
    /\ pc = "ehlo2"
    /\ Talk("ehlo")
    /\ \/ pc' = "login" /\ UNCHANGED raised
       \/ Raise("SMTPServerDisconnected")
    /\ UNCHANGED <<self, sendmail_args, readable, ctorVars>>

\* Line 196: session.login(self.from_, self.password)
Login ==
    /\ pc = "login"
    /\ Talk("login")
    /\ \/ pc' = "sendmail" /\ UNCHANGED raised
       \/ Raise("SMTPAuthenticationError")
    /\ UNCHANGED <<self, sendmail_args, readable, ctorVars>>

\* Lines 222-233: the recipient headers, then session.sendmail(...)
Sendmail ==
    /\ pc = "sendmail"
    /\ self' = [self EXCEPT !.message = WithRecipientHeaders(@, self)]
    /\ sendmail_args' = [from_addr |-> self.from_,
                         to_addrs |-> Recipients(self),
                         msg |-> self'.message]
    /\ Talk("sendmail")
    /\ \/ pc' = "quit" /\ UNCHANGED raised
       \/ Raise("SMTPRecipientsRefused")
    /\ UNCHANGED <<readable, ctorVars>>

\* A slip: the history is assigned, not appended to.
RecordSent_Replacing(slf) == [slf EXCEPT !.sent_messages = <<Repr>>]

\* Line 236: self.sent_messages.append(repr(self))
RecordSent(slf) == [slf EXCEPT !.sent_messages = Append(@, Repr)]

\* Lines 234-236: session.quit(), print, self.sent_messages.append(repr(self)).
\* quit() gives the connection up whether the server answers it or not.
Quit ==
    /\ pc = "quit"
    /\ wire' = Append(wire, "quit")
    /\ session' = "closed"
    /\ open_sessions' = open_sessions - 1
    /\ \/ /\ self' = RecordSent(self)
          /\ pc' = "idle"
          /\ raised' = "none"
       \/ /\ Raise("SMTPServerDisconnected")
          /\ UNCHANGED self
    /\ UNCHANGED <<sendmail_args, readable, ctorVars>>

(***************************************************************************)
(* The specifications.                                                     *)
(***************************************************************************)
\* A client just constructed, about to be used.
Init ==
    /\ \E a \in SendArgs :
         LET r == Ctor(EmptyStore[Profile(a.name)], a, Typed)
         IN  /\ args = a
             /\ self = r.obj
             /\ raised = r.exc
             /\ prompted = r.prompted
             /\ store = [EmptyStore EXCEPT ![Profile(a.name)] = r.cfg]
    /\ constructions = 1
    /\ pc = "idle"
    /\ session = "unbound"
    /\ wire = <<>>
    /\ sendmail_args = None
    /\ open_sessions = 0
    /\ readable \in ReadableValues

Next ==
    \/ \E v \in SubjectValues : AssignSubject(v)
    \/ \E v \in BodyValues : AssignBody(v)
    \/ \E v \in AttachmentValues \ {None} : AssignAttachments(v)
    \/ GenerateEmail
    \/ SendGenerate
    \/ GetSsl
    \/ GetTls
    \/ GetNoSession
    \/ Ehlo1
    \/ StartTls
    \/ Ehlo2
    \/ Login
    \/ Sendmail
    \/ Quit

Spec == Init /\ [][Next]_vars

\* No client yet: the profile store as some earlier run left it.
InitCtor ==
    /\ store \in InitialStores
    /\ self = NoObject
    /\ args = NoArgs
    /\ raised = "none"
    /\ prompted = FALSE
    /\ constructions = 0
    /\ pc = "idle"
    /\ session = "unbound"
    /\ wire = <<>>
    /\ sendmail_args = None
    /\ open_sessions = 0
    /\ readable = {File1, File2}

NextCtor == \E a \in CtorArgs, persist \in BOOLEAN : Construct(a, Typed, persist)

SpecCtor == InitCtor /\ [][NextCtor]_vars

(***************************************************************************)
(* What the claims speak of.                                               *)
(***************************************************************************)
IsPrefix(s, t) == Len(s) <= Len(t) /\ SubSeq(t, 1, Len(s)) = s

Range(s) == {s[i] : i \in DOMAIN s}

HeaderCount(m, name) == Cardinality({i \in DOMAIN m.headers : m.headers[i][1] = name})

HeaderValues(m, name) ==
    {m.headers[i][2] : i \in {j \in DOMAIN m.headers : m.headers[j][1] = name}}

TextParts(m) == SelectSeq(m.parts, LAMBDA part : part.ctype = "text/plain")

AttachmentParts(m) ==
    SelectSeq(m.parts, LAMBDA part : part.ctype = "application/octet-stream")

\* The addresses of a role: none, the one string, or the list's strings.
Addresses(value) ==
    IF ~Truthy(value) THEN {}
    ELSE IF value.t = "list" THEN Range(value.v) ELSE {value}

\* The addresses of a role joined with ', '.
RECURSIVE CommaSeparated(_)
CommaSeparated(l) ==
    IF Len(l) = 1 THEN l[1].v
    ELSE CommaSeparated(SubSeq(l, 1, Len(l) - 1)) \o <<", ">> \o l[Len(l)].v

Joined(value) == IF value.t = "list" THEN Str(CommaSeparated(value.v)) ELSE value

\* A role's header: absent when the role is, else the one joined value.
RoleHeader(m, name, value) ==
    IF Truthy(value)
    THEN HeaderCount(m, name) = 1 /\ HeaderValues(m, name) = {Joined(value)}
    ELSE HeaderCount(m, name) = 0

AllReadable(attachments) ==
    \A item \in Addresses(attachments) : item \in readable

SslWire == <<"SMTP_SSL", "login", "sendmail", "quit">>
TlsWire == <<"SMTP", "ehlo", "starttls", "ehlo", "login", "sendmail", "quit">>

\* The step on which a send() call returns normally.
SendReturns == pc = "quit" /\ pc' = "idle" /\ raised' = "none"

(***************************************************************************)
(* C1: every send() that completes appends exactly one entry to            *)
(* sent_messages, no other step (a send() failing at composition, connect, *)
(* login or sendmail among them) changes sent_messages, and the entries    *)
(* already there stay as they are.                                         *)
(***************************************************************************)
C1_SendAppendsOnce ==
    [][/\ SendReturns =>
            /\ Len(self'.sent_messages) = Len(self.sent_messages) + 1
            /\ IsPrefix(self.sent_messages, self'.sent_messages)
       /\ ~SendReturns => self'.sent_messages = self.sent_messages]_vars

\* A send() that failed at login after one that completed.
C1_Witness ==
    /\ pc = "idle"
    /\ raised = "SMTPAuthenticationError"
    /\ Len(self.sent_messages) = 1

(***************************************************************************)
(* C2: on port 465 the session is SMTP_SSL and login follows it directly,  *)
(* with no starttls on the wire; on port 587 the wire is connect, ehlo,    *)
(* starttls, ehlo and only then login.                                     *)
(***************************************************************************)
C2_TransportOrder ==
    /\ self.port.v = 465 => IsPrefix(wire, SslWire) /\ "starttls" \notin Range(wire)
    /\ self.port.v = 587 => IsPrefix(wire, TlsWire)
    /\ pc \in {"sendmail", "quit"} => self.port.v \in {465, 587} /\ "login" \in Range(wire)

C2_Witness ==
    /\ self.port.v = 587
    /\ wire = <<"SMTP", "ehlo", "starttls", "ehlo", "login">>

(***************************************************************************)
(* C3: the recipients send() hands to sendmail are a flat collection of    *)
(* address strings, exactly the addresses of the roles present, and the    *)
(* To/Cc/Bcc headers carry each present role joined with ', '.             *)
(***************************************************************************)
C3_FlatEnvelope ==
    sendmail_args # None =>
        /\ \A i \in DOMAIN sendmail_args.to_addrs : sendmail_args.to_addrs[i].t = "str"
        /\ Range(sendmail_args.to_addrs) =
               Addresses(self.to) \cup Addresses(self.cc) \cup Addresses(self.bcc)
        /\ RoleHeader(sendmail_args.msg, "To", self.to)
        /\ RoleHeader(sendmail_args.msg, "Cc", self.cc)
        /\ RoleHeader(sendmail_args.msg, "Bcc", self.bcc)

(***************************************************************************)
(* C4: once send() has returned or raised, the SMTP session it opened is   *)
(* closed: no session is open between sends.                               *)
(***************************************************************************)
C4_SessionReleased == pc = "idle" => open_sessions = 0

(***************************************************************************)
(* The profile's email section and keyring as a construction finds them.   *)
(***************************************************************************)
StoredSection(name) == Get(store[Profile(name)].data, msg, EmptyDict)

StoredSecrets(name) == store[Profile(name)].pwd

\* The step of a constructor call.
Constructs == constructions' = constructions + 1

\* The constructor call got past the resolution of from_, server and port.
ServerResolved == raised' \notin {"IndexError", "AttributeError"}

\* The domain portion of an address: what follows its '@'.
DomainOf(address) ==
    LET at == CHOOSE i \in DOMAIN address.v : address.v[i] = "@"
    IN  SubSeq(address.v, at + 1, Len(address.v))

(***************************************************************************)
(* C5: an explicit port argument that differs from the port the profile    *)
(* stores is the port of the client.                                       *)
(***************************************************************************)
C5_PortArgumentWins ==
    [][(/\ Constructs
        /\ raised' = "none"
        /\ args'.port.v # DefaultPort
        /\ "port" \in DOMAIN StoredSection(args'.name)
        /\ StoredSection(args'.name)["port"] # args'.port)
       => self'.port = args'.port]_vars

NameOrEmpty(name) == IF name = None THEN <<>> ELSE name.v

C7_PasswordResolution ==
    [][(Constructs /\ ServerResolved /\ ~args'.save) =>
         LET key == NameOrEmpty(args'.name) \o <<"_", "email">>
             kept == StoredSecrets(args'.name)
         IN  /\ raised' = "none"
             /\ self'.password =
                    IF args'.password # None THEN args'.password
                    ELSE IF key \in DOMAIN kept THEN kept[key] ELSE Typed
             /\ prompted' = (args'.password = None /\ key \notin DOMAIN kept)]_vars

(***************************************************************************)
(* C8: a construction with save set, for the default profile as for a      *)
(* named one, leaves the resolved from_, server and port in the profile's  *)
(* email section and the resolved password in the keyring.                 *)
(***************************************************************************)
C8_SavePersists ==
    [][(Constructs /\ ServerResolved /\ args'.save /\ args'.password # None) =>
         LET after == store'[Profile(args'.name)]
             key == NameOrEmpty(args'.name) \o <<"_", "email">>
         IN  /\ raised' = "none"
             /\ msg \in DOMAIN after.data
             /\ {"from_", "server", "port"} \subseteq DOMAIN after.data[msg]
             /\ after.data[msg]["from_"] = self'.from_
             /\ after.data[msg]["server"] = self'.server
             /\ after.data[msg]["port"] = self'.port
             /\ key \in DOMAIN after.pwd
             /\ after.pwd[key] = self'.password]_vars

(***************************************************************************)
(* C9: a call that composes the message leaves exactly one From and one    *)
(* Subject header, at most one each of To/Cc/Bcc, no body part for an      *)
(* empty body and one otherwise, and one attachment part per listed        *)
(* attachment, all with the current values: nothing is left of the         *)
(* message of an earlier call.                                             *)
(***************************************************************************)
Composed(slf) ==
    LET m == slf.message
    IN  /\ HeaderCount(m, "From") = 1 /\ HeaderValues(m, "From") = {slf.from_}
        /\ HeaderCount(m, "Subject") = 1 /\ HeaderValues(m, "Subject") = {slf.subject}
        /\ \A role \in {"To", "Cc", "Bcc"} : HeaderCount(m, role) <= 1
        /\ HeaderValues(m, "To") \subseteq {Joined(slf.to)}
        /\ HeaderValues(m, "Cc") \subseteq {Joined(slf.cc)}
        /\ HeaderValues(m, "Bcc") \subseteq {Joined(slf.bcc)}
        /\ Len(TextParts(m)) = IF slf.body.v = <<>> THEN 0 ELSE 1
        /\ \A i \in DOMAIN TextParts(m) : TextParts(m)[i].payload = slf.body.v
        /\ slf.attachments.t = "list"
        /\ Len(AttachmentParts(m)) = Len(slf.attachments.v)
        /\ \A i \in DOMAIN AttachmentParts(m) :
               AttachmentParts(m)[i].filename = slf.attachments.v[i].v
        /\ Len(m.parts) = Len(TextParts(m)) + Len(AttachmentParts(m))

C9_ComposedAfresh ==
    [][(self'.message # self.message /\ raised' # "FileNotFoundError")
       => Composed(self')]_vars

\* The message of a second send(), with a body and two attachments.
C9_Witness ==
    /\ pc = "quit"
    /\ Len(self.sent_messages) = 1
    /\ Len(self.message.parts) = 3
    /\ HeaderCount(self.message, "To") = 1

(***************************************************************************)
(* C10: with a listed attachment that cannot be read, send() raises while  *)
(* composing: it never reaches get_session, nothing goes on the wire, no   *)
(* connection is opened and nothing is handed to sendmail.                 *)
(***************************************************************************)
C10_NoNetworkAfterReadError ==
    [][/\ pc' # "idle" => AllReadable(self'.attachments)
       /\ (pc = "idle" /\ ~AllReadable(self.attachments)) =>
            /\ pc' = "idle"
            /\ open_sessions' = open_sessions
            /\ wire' \in {wire, <<>>}
            /\ sendmail_args' \in {sendmail_args, None}
            /\ self'.message # self.message => raised' = "FileNotFoundError"]_vars

\* A send() that raised on an attachment after a send() that completed.
C10_Witness ==
    /\ pc = "idle"
    /\ raised = "FileNotFoundError"
    /\ Len(self.sent_messages) = 1
    /\ wire = <<>>
    /\ open_sessions = 0

====
